---- MODULE Spec2Model ----
(***************************************************************************)
(* focalboard server: the system_settings store (sqlstore/system.go), the  *)
(* construction of a Server (server.go New, initHandlers.go) and its       *)
(* Start / Shutdown life cycle with the session-cleanup task.              *)
(***************************************************************************)
EXTENDS Integers, Sequences, FiniteSets, TLC

VARIABLES
    cfg,             \* config.Configuration consumed by New / Start
    mattermostAuth,  \* whether the package-level mattermostAuth hook is non-nil
    table,           \* rows of <prefix>system_settings, in insertion order
    lastSet,         \* the most recent SetSystemSetting call and its result
    uuids,           \* how many identifiers uuid.New() has returned so far
    new,             \* per process: the locals of its running call of New
    web,             \* the public web server (s.webServer)
    localModeServer, \* s.localModeServer: nil, or the http.Server and its handler
    socket,          \* the local-mode socket file and the listener bound to it
    tasks,           \* the recurring tasks the scheduler has created
    cleanUpSessionsTask, \* s.cleanUpSessionsTask: 0 for nil, or an index of tasks
    telemetryJob,    \* the telemetry service's job: "new", "running" or "stopped"
    storeState,      \* the store of the Server: "open", "closed", "closedTwice"
    cleanUps,        \* the most recent CleanUpSessions call
    caller           \* the thread that calls Start and Shutdown on the Server

life == <<web, localModeServer, socket, tasks, cleanUpSessionsTask, telemetryJob,
          storeState, cleanUps, caller>>

vars == <<cfg, mattermostAuth, table, lastSet, uuids, new, life>>

Nil == "nil"

\* Processes that construct a Server against the one shared database.
Procs == {"p1", "p2"}

\* ------------------------------------------------------------------------
\* Bounds of the model
\* ------------------------------------------------------------------------
\* Number of times a construction generates identifiers (two uuid.New()
\* calls each time) in one run of the model.
MaxFirstRuns == 2

\* uuid.New().String(): the n-th identifier drawn; no two draws are equal
UuidString(n) == "uuid-" \o ToString(n)

\* Keys and values the callers of the settings store use.
Keys == {"TelemetryID", "k"}
Values == {"", "v1", "v2"}

\* ------------------------------------------------------------------------
\* Settings store (sqlstore/system.go)
\* ------------------------------------------------------------------------
EmptyMap == [x \in {} |-> ""]

\* results[id] = value on a Go map
MapPut(m, k, v) == [x \in (DOMAIN m) \cup {k} |-> IF x = k THEN v ELSE m[x]]

\* m[k] on a Go map[string]string: the zero value "" for a missing key
MapGet(m, k) == IF k \in DOMAIN m THEN m[k] ELSE ""

RECURSIVE ScanRows(_, _)
\* for rows.Next() { rows.Scan(&id, &value); results[id] = value }
ScanRows(rows, results) ==
    IF rows = <<>> THEN results
    ELSE ScanRows(Tail(rows), MapPut(results, Head(rows).id, Head(rows).value))

\* GetSystemSettings: Select * From system_settings; io is whether the query
\* and the scans succeed.
GetSystemSettings(t, io) ==
    IF io THEN [results |-> ScanRows(t, EmptyMap), err |-> Nil]
    ELSE [results |-> EmptyMap, err |-> "query failed"]

HasRow(t, id) == \E i \in 1..Len(t) : t[i].id = id

\* The database executing INSERT INTO system_settings (id, value): the id
\* column is a unique key, so a second row with the same id is rejected.
ExecInsert(t, id, value, io) ==
    IF ~io THEN [table |-> t, err |-> "exec failed"]
    ELSE IF HasRow(t, id) THEN [table |-> t, err |-> "duplicate key"]
    ELSE [table |-> Append(t, [id |-> id, value |-> value]), err |-> Nil]

\* Mutant of SetSystemSetting: reports success without inserting the row.
SetSystemSettingNoInsert(t, id, value, io) ==
    [table |-> t, err |-> Nil]

\* SetSystemSetting: Insert(...).Columns("id", "value").Values(id, value),
\* Exec, and the error of Exec returned as is.
SetSystemSetting(t, id, value, io) ==
    ExecInsert(t, id, value, io)

\* The value of the row with this id, read off the table directly.
StoredValue(t, id) ==
    IF HasRow(t, id) THEN t[CHOOSE i \in 1..Len(t) : t[i].id = id].value ELSE ""

RowCount(t, id) == Cardinality({i \in 1..Len(t) : t[i].id = id})

NoCall == [called |-> FALSE, id |-> "", value |-> "", io |-> TRUE, err |-> Nil]

\* A client of the store calls SetSystemSetting(k, v).
StoreSet ==
    \E k \in Keys, v \in Values, io \in BOOLEAN :
        LET r == SetSystemSetting(table, k, v, io) IN
        /\ table' = r.table
        /\ lastSet' = [called |-> TRUE, id |-> k, value |-> v, io |-> io, err |-> r.err]
        /\ UNCHANGED <<cfg, mattermostAuth, uuids, new, life>>

\* ------------------------------------------------------------------------
\* Route providers and the web server's router
\* ------------------------------------------------------------------------
AdminRoutes == {"admin"}
APIRoutes == {"api"}
WSRoutes == {"ws"}
MattermostAuthRoutes == {"mmauth"}

\* api.RegisterAdminRoutes(r): the administrative routes, and only those
RegisterAdminRoutes(r) == r \cup AdminRoutes

\* webServer.AddRoutes(provider): the provider registers its routes on the
\* web server's router
AddRoutes(r, provided) == r \cup provided

\* ------------------------------------------------------------------------
\* New (server.go) and initHandlers (initHandlers.go)
\* ------------------------------------------------------------------------
StepOrder ==
    <<"logger", "sqlstore", "auth", "ws", "files", "webhook", "api",
      "adminRoutes", "rootWorkspace", "webServer", "getSettings",
      "setTelemetryID", "registeredUsers", "dailyActive", "weeklyActive",
      "monthlyActive", "telemetry", "initHandlers">>

StepIndex(s) == CHOOSE i \in 1..Len(StepOrder) : StepOrder[i] = s

StepsUpTo(s) == {StepOrder[i] : i \in 1..StepIndex(s)}

StepsAfter(s) == {StepOrder[i] : i \in (StepIndex(s) + 1)..Len(StepOrder)}

CountSteps == {"registeredUsers", "dailyActive", "weeklyActive", "monthlyActive"}

NextCountStep(s) ==
    CASE s = "registeredUsers" -> "dailyActive"
      [] s = "dailyActive" -> "weeklyActive"
      [] s = "weeklyActive" -> "monthlyActive"
      [] s = "monthlyActive" -> "telemetry"

NilServer ==
    [valid |-> FALSE, telemetryID |-> "", localRouter |-> {}, webRoutes |-> {},
     authenticator |-> ""]

\* The locals of New at its entry; sawStoredID remembers whether the store
\* held a non-empty TelemetryID when this construction began.
NewEntry(t) ==
    [pc |-> "logger", executed |-> {}, failed |-> {},
     sawStoredID |-> Len(StoredValue(t, "TelemetryID")) > 0,
     settings |-> EmptyMap, telemetryID |-> "", localRouter |-> {},
     webRoutes |-> {}, server |-> NilServer, err |-> Nil]

\* return nil, err at the step that failed
ReturnErr(l, step, err) ==
    [l EXCEPT !.pc = "returned", !.executed = @ \cup {step},
              !.failed = @ \cup {step}, !.err = err]

\* zap.NewProduction()
NewLogger(p) ==
    /\ new[p].pc = "logger"
    /\ \E ok \in BOOLEAN :
        new' = [new EXCEPT ![p] =
            IF ok THEN [@ EXCEPT !.pc = "sqlstore", !.executed = @ \cup {"logger"}]
            ELSE ReturnErr(@, "logger", "logger failed")]
    /\ UNCHANGED <<cfg, mattermostAuth, table, lastSet, uuids, life>>

\* sqlstore.New, then auth.New and ws.NewServer
NewStore(p) ==
    /\ new[p].pc = "sqlstore"
    /\ \E ok \in BOOLEAN :
        new' = [new EXCEPT ![p] =
            IF ok THEN [@ EXCEPT !.pc = "files",
                                 !.executed = @ \cup {"sqlstore", "auth", "ws"}]
            ELSE ReturnErr(@, "sqlstore", "database failed")]
    /\ UNCHANGED <<cfg, mattermostAuth, table, lastSet, uuids, life>>

\* Mutant of NewFilesBackend: the error of NewFileBackend is dropped.
NewFilesBackendErrDropped(p) ==
    /\ new[p].pc = "files"
    /\ \E ok \in BOOLEAN :
        new' = [new EXCEPT ![p] =
            [@ EXCEPT !.pc = "rootWorkspace",
                      !.failed = @ \cup (IF ok THEN {} ELSE {"files"}),
                      !.executed = @ \cup {"files", "webhook", "api", "adminRoutes"},
                      !.localRouter = RegisterAdminRoutes({})]]
    /\ UNCHANGED <<cfg, mattermostAuth, table, lastSet, uuids, life>>

\* filesstore.NewFileBackend, then webhook.NewClient, appBuilder, api.NewAPI,
\* mux.NewRouter() and api.RegisterAdminRoutes(localRouter)
NewFilesBackend(p) ==
    /\ new[p].pc = "files"
    /\ \E ok \in BOOLEAN :
        new' = [new EXCEPT ![p] =
            IF ok THEN [@ EXCEPT !.pc = "rootWorkspace",
                                 !.executed = @ \cup {"files", "webhook", "api",
                                                      "adminRoutes"},
                                 !.localRouter = RegisterAdminRoutes({})]
            ELSE ReturnErr(@, "files", "unable to initialize the files storage")]
    /\ UNCHANGED <<cfg, mattermostAuth, table, lastSet, uuids, life>>

\* appBuilder().GetRootWorkspace() with its results discarded, then
\* web.NewServer and webServer.AddRoutes(wsServer), webServer.AddRoutes(api)
NewRootWorkspace(p) ==
    /\ new[p].pc = "rootWorkspace"
    /\ \E ok \in BOOLEAN :
        new' = [new EXCEPT ![p] =
            [@ EXCEPT !.pc = "getSettings",
                      !.failed = @ \cup (IF ok THEN {} ELSE {"rootWorkspace"}),
                      !.executed = @ \cup {"rootWorkspace", "webServer"},
                      !.webRoutes = AddRoutes(AddRoutes({}, WSRoutes), APIRoutes)]]
    /\ UNCHANGED <<cfg, mattermostAuth, table, lastSet, uuids, life>>

\* Mutant of NeedsTelemetryID: an identifier is generated on every run.
NeedsTelemetryIDAlways(telemetryID) == TRUE

\* if len(telemetryID) == 0
NeedsTelemetryID(telemetryID) == Len(telemetryID) = 0

\* settings, err := store.GetSystemSettings(); telemetryID := settings["TelemetryID"]
NewGetSettings(p) ==
    /\ new[p].pc = "getSettings"
    /\ \E io \in BOOLEAN :
        LET r == GetSystemSettings(table, io)
            id == MapGet(r.results, "TelemetryID")
        IN new' = [new EXCEPT ![p] =
            IF r.err # Nil THEN ReturnErr(@, "getSettings", r.err)
            ELSE [@ EXCEPT !.pc = IF NeedsTelemetryID(id) THEN "setTelemetryID"
                                  ELSE "registeredUsers",
                           !.executed = @ \cup {"getSettings"},
                           !.settings = r.results,
                           !.telemetryID = id]]
    /\ UNCHANGED <<cfg, mattermostAuth, table, lastSet, uuids, life>>

\* telemetryID = uuid.New().String()
\* err := store.SetSystemSetting("TelemetryID", uuid.New().String())
NewSetTelemetryID(p) ==
    /\ new[p].pc = "setTelemetryID"
    /\ uuids < 2 * MaxFirstRuns
    /\ uuids' = uuids + 2
    /\ \E io \in BOOLEAN :
        LET kept == UuidString(uuids + 1)
            stored == UuidString(uuids + 2)
            r == SetSystemSetting(table, "TelemetryID", stored, io)
        IN
        /\ table' = r.table
        /\ lastSet' = [called |-> TRUE, id |-> "TelemetryID", value |-> stored,
                       io |-> io, err |-> r.err]
        /\ new' = [new EXCEPT ![p] =
            IF r.err # Nil
            THEN ReturnErr([@ EXCEPT !.telemetryID = kept], "setTelemetryID", r.err)
            ELSE [@ EXCEPT !.pc = "registeredUsers",
                           !.executed = @ \cup {"setTelemetryID"},
                           !.telemetryID = kept]]
    /\ UNCHANGED <<cfg, mattermostAuth, life>>

\* GetRegisteredUserCount, GetDailyActiveUsers, GetWeeklyActiveUsers,
\* GetMonthlyActiveUsers: each returns its error
NewUsageCount(p) ==
    /\ new[p].pc \in CountSteps
    /\ \E ok \in BOOLEAN :
        new' = [new EXCEPT ![p] =
            IF ok THEN [@ EXCEPT !.pc = NextCountStep(new[p].pc),
                                 !.executed = @ \cup {new[p].pc}]
            ELSE ReturnErr(@, new[p].pc, "count failed")]
    /\ UNCHANGED <<cfg, mattermostAuth, table, lastSet, uuids, life>>

\* Mutant of InitHandlers: the presence of the external authenticator is not
\* checked.
InitHandlersModeOnly(s) ==
    IF cfg.AuthMode = "mattermost"
    THEN [s EXCEPT !.webRoutes = AddRoutes(@, MattermostAuthRoutes),
                   !.authenticator = "mattermost"]
    ELSE s

\* initHandlers: the Mattermost auth handler is wired when the auth mode asks
\* for it and the hook is present
InitHandlers(s) ==
    IF cfg.AuthMode = "mattermost" /\ mattermostAuth
    THEN [s EXCEPT !.webRoutes = AddRoutes(@, MattermostAuthRoutes),
                   !.authenticator = "mattermost"]
    ELSE s

\* telemetry.New(telemetryID, ...), the three RegisterTracker calls, the
\* Server value, server.initHandlers() and return &server, nil
NewFinish(p) ==
    /\ new[p].pc = "telemetry"
    /\ new' = [new EXCEPT ![p] =
        [@ EXCEPT !.pc = "returned",
                  !.executed = @ \cup {"telemetry", "initHandlers"},
                  !.server = InitHandlers([valid |-> TRUE,
                                           telemetryID |-> new[p].telemetryID,
                                           localRouter |-> new[p].localRouter,
                                           webRoutes |-> new[p].webRoutes,
                                           authenticator |-> "default"]),
                  !.err = Nil]]
    /\ UNCHANGED <<cfg, mattermostAuth, table, lastSet, uuids, life>>

\* The process ends and a new one calls New against the same database.
Restart(p) ==
    /\ new[p].pc = "returned"
    /\ new' = [new EXCEPT ![p] = NewEntry(table)]
    /\ UNCHANGED <<cfg, mattermostAuth, table, lastSet, uuids, life>>

\* New has returned; it returned a Server.
Returned(p) == new[p].pc = "returned"

Succeeded(p) == Returned(p) /\ new[p].server.valid

NewStep(p) ==
    \/ NewLogger(p)
    \/ NewStore(p)
    \/ NewFilesBackend(p)
    \/ NewRootWorkspace(p)
    \/ NewGetSettings(p)
    \/ NewSetTelemetryID(p)
    \/ NewUsageCount(p)
    \/ NewFinish(p)

\* ------------------------------------------------------------------------
\* Start, Shutdown and the session-cleanup task (server.go)
\* ------------------------------------------------------------------------
\* The process whose Server is started and shut down.
Main == "p1"

\* Number of recurring tasks the scheduler creates in one run of the model.
MaxTasks == 2

NoLocalServer == [set |-> FALSE, handler |-> {}]

NoSocket == [file |-> "absent", bound |-> FALSE, serving |-> FALSE, orphan |-> FALSE]

NoCleanUp == [called |-> FALSE, secondsAgo |-> 0, afterClose |-> FALSE]

\* The calling thread: where it is, what its last call returned, and the
\* steps the current (or last) call performed and those that reported an error.
Idle == [pc |-> "idle", lastOp |-> "none", lastErr |-> Nil, steps |-> {}, errs |-> {}]

LifeInit ==
    /\ web = [running |-> FALSE]
    /\ localModeServer = NoLocalServer
    /\ socket = NoSocket
    /\ tasks = <<>>
    /\ cleanUpSessionsTask = 0
    /\ telemetryJob = "new"
    /\ storeState = "open"
    /\ cleanUps = NoCleanUp
    /\ caller = Idle

S == new[Main].server

\* The step was performed; it reported an error.
Did(c, step) == [c EXCEPT !.steps = @ \cup {step}]

Erred(c, step) == [c EXCEPT !.steps = @ \cup {step}, !.errs = @ \cup {step}]

Return(op, err) == [caller EXCEPT !.pc = "idle", !.lastOp = op, !.lastErr = err]

At(pc) == Succeeded(Main) /\ caller.pc = pc

Goto(pc) == caller' = [caller EXCEPT !.pc = pc]

\* A call of s.Start() begins.
CallStart ==
    /\ At("idle")
    /\ Len(tasks) < MaxTasks
    /\ caller' = [caller EXCEPT !.pc = "st_web", !.steps = {}, !.errs = {}]
    /\ UNCHANGED <<cfg, mattermostAuth, table, lastSet, uuids, new, web, localModeServer,
                   socket, tasks, cleanUpSessionsTask, telemetryJob, storeState,
                   cleanUps>>

\* s.webServer.Start(): no result is returned to Start; bound is whether the
\* listener could be bound.
StartWebServer ==
    /\ At("st_web")
    /\ \E bound \in BOOLEAN :
        /\ web' = [running |-> bound]
        /\ caller' = [(IF bound THEN Did(caller, "webStart")
                       ELSE Erred(caller, "webStart"))
                      EXCEPT !.pc = IF cfg.EnableLocalMode THEN "lm_unlink"
                                    ELSE "st_task"]
    /\ UNCHANGED <<cfg, mattermostAuth, table, lastSet, uuids, new, localModeServer,
                   socket, tasks, cleanUpSessionsTask, telemetryJob, storeState,
                   cleanUps>>

\* Mutant of LocalModeHandler: the local server is given the public router.
LocalModeHandlerPublic(s) == s.webRoutes

\* &http.Server{Handler: s.localRouter, ...}
LocalModeHandler(s) == s.localRouter

\* startLocalModeServer: s.localModeServer = &http.Server{...} and
\* syscall.Unlink(socket), whose result is ignored. A listener an earlier
\* Start bound to the path stays open without its file.
LocalUnlink ==
    /\ At("lm_unlink")
    /\ localModeServer' = [set |-> TRUE, handler |-> LocalModeHandler(S)]
    /\ socket' = [file |-> "absent", bound |-> FALSE, serving |-> FALSE,
                  orphan |-> socket.orphan \/ socket.bound]
    /\ caller' = [Did(caller, "unlink") EXCEPT !.pc = "lm_listen"]
    /\ UNCHANGED <<cfg, mattermostAuth, table, lastSet, uuids, new, web, tasks,
                   cleanUpSessionsTask, telemetryJob, storeState, cleanUps>>

\* Mutant of LocalListen: Start goes on after a failed net.Listen.
LocalListenErrIgnored ==
    /\ At("lm_listen")
    /\ \E ok \in BOOLEAN :
        IF ok THEN /\ socket' = [socket EXCEPT !.file = "default", !.bound = TRUE]
                   /\ caller' = [Did(caller, "listen") EXCEPT !.pc = "lm_chmod"]
        ELSE /\ caller' = [Erred(caller, "listen") EXCEPT !.pc = "st_task"]
             /\ UNCHANGED socket
    /\ UNCHANGED <<cfg, mattermostAuth, table, lastSet, uuids, new, web, localModeServer,
                   tasks, cleanUpSessionsTask, telemetryJob, storeState, cleanUps>>

\* net.Listen("unix", socket): creates the socket file with the default mode
LocalListen ==
    /\ At("lm_listen")
    /\ \E ok \in BOOLEAN :
        IF ok THEN /\ socket' = [socket EXCEPT !.file = "default", !.bound = TRUE]
                   /\ caller' = [Did(caller, "listen") EXCEPT !.pc = "lm_chmod"]
        ELSE /\ caller' = Erred(Return("Start", "listen failed"), "listen")
             /\ UNCHANGED socket
    /\ UNCHANGED <<cfg, mattermostAuth, table, lastSet, uuids, new, web, localModeServer,
                   tasks, cleanUpSessionsTask, telemetryJob, storeState, cleanUps>>

\* Mutant of LocalChmod: the server is served although os.Chmod failed.
LocalChmodErrIgnored ==
    /\ At("lm_chmod")
    /\ \E ok \in BOOLEAN :
        IF ok THEN /\ socket' = [socket EXCEPT !.file = "0600"]
                   /\ caller' = [Did(caller, "chmod") EXCEPT !.pc = "lm_serve"]
        ELSE /\ caller' = [Erred(caller, "chmod") EXCEPT !.pc = "lm_serve"]
             /\ UNCHANGED socket
    /\ UNCHANGED <<cfg, mattermostAuth, table, lastSet, uuids, new, web, localModeServer,
                   tasks, cleanUpSessionsTask, telemetryJob, storeState, cleanUps>>

\* os.Chmod(socket, 0600)
LocalChmod ==
    /\ At("lm_chmod")
    /\ \E ok \in BOOLEAN :
        IF ok THEN /\ socket' = [socket EXCEPT !.file = "0600"]
                   /\ caller' = [Did(caller, "chmod") EXCEPT !.pc = "lm_serve"]
        ELSE /\ caller' = Erred(Return("Start", "chmod failed"), "chmod")
             /\ UNCHANGED socket
    /\ UNCHANGED <<cfg, mattermostAuth, table, lastSet, uuids, new, web, localModeServer,
                   tasks, cleanUpSessionsTask, telemetryJob, storeState, cleanUps>>

\* go func() { s.localModeServer.Serve(unixListener) }(); return nil
LocalServe ==
    /\ At("lm_serve")
    /\ socket' = [socket EXCEPT !.serving = TRUE]
    /\ caller' = [Did(caller, "serve") EXCEPT !.pc = "st_task"]
    /\ UNCHANGED <<cfg, mattermostAuth, table, lastSet, uuids, new, web, localModeServer,
                   tasks, cleanUpSessionsTask, telemetryJob, storeState, cleanUps>>

\* scheduler.CreateRecurringTask: a new running task
CreateRecurringTask(ts) == Append(ts, [cancelled |-> FALSE, inFlight |-> FALSE])

\* task.Cancel(): no later invocation starts; one in progress is not interrupted
Cancel(ts, h) == [ts EXCEPT ![h].cancelled = TRUE]

\* s.cleanUpSessionsTask = scheduler.CreateRecurringTask("cleanUpSessions", ...)
StartCleanUpTask ==
    /\ At("st_task")
    /\ tasks' = CreateRecurringTask(tasks)
    /\ cleanUpSessionsTask' = Len(tasks')
    /\ caller' = [Did(caller, "createTask") EXCEPT !.pc = "st_telemetry"]
    /\ UNCHANGED <<cfg, mattermostAuth, table, lastSet, uuids, new, web, localModeServer,
                   socket, telemetryJob, storeState, cleanUps>>

\* if s.config.Telemetry { s.telemetry.RunTelemetryJob(firstRun) }; return nil
StartTelemetry ==
    /\ At("st_telemetry")
    /\ telemetryJob' = IF cfg.Telemetry THEN "running" ELSE telemetryJob
    /\ caller' = IF cfg.Telemetry THEN Did(Return("Start", Nil), "runTelemetry")
                 ELSE Return("Start", Nil)
    /\ UNCHANGED <<cfg, mattermostAuth, table, lastSet, uuids, new, web, localModeServer,
                   socket, tasks, cleanUpSessionsTask, storeState, cleanUps>>

\* The timer of task i fires and the task's function is invoked.
TickFire(i) ==
    /\ i \in 1..Len(tasks)
    /\ ~tasks[i].cancelled
    /\ ~tasks[i].inFlight
    /\ tasks' = [tasks EXCEPT ![i].inFlight = TRUE]
    /\ UNCHANGED <<cfg, mattermostAuth, table, lastSet, uuids, new, web, localModeServer,
                   socket, cleanUpSessionsTask, telemetryJob, storeState, cleanUps,
                   caller>>

\* Mutant of SecondsAgo: the configured session expiry is ignored.
SecondsAgoDefaultOnly(sessionExpireTime) == 60 * 60 * 24 * 31

\* secondsAgo := int64(60 * 60 * 24 * 31)
\* if secondsAgo < s.config.SessionExpireTime { secondsAgo = s.config.SessionExpireTime }
SecondsAgo(sessionExpireTime) ==
    IF 60 * 60 * 24 * 31 < sessionExpireTime THEN sessionExpireTime
    ELSE 60 * 60 * 24 * 31

\* The function of task i calls s.store.CleanUpSessions(secondsAgo); an error
\* is only logged.
TickCleanUp(i) ==
    /\ i \in 1..Len(tasks)
    /\ tasks[i].inFlight
    /\ cleanUps' = [called |-> TRUE,
                    secondsAgo |-> SecondsAgo(cfg.SessionExpireTime),
                    afterClose |-> cleanUps.afterClose \/ storeState # "open"]
    /\ tasks' = [tasks EXCEPT ![i].inFlight = FALSE]
    /\ UNCHANGED <<cfg, mattermostAuth, table, lastSet, uuids, new, web, localModeServer,
                   socket, cleanUpSessionsTask, telemetryJob, storeState, caller>>

\* A call of s.Shutdown() begins.
CallShutdown ==
    /\ At("idle")
    /\ caller' = [caller EXCEPT !.pc = "sd_web", !.steps = {}, !.errs = {}]
    /\ UNCHANGED <<cfg, mattermostAuth, table, lastSet, uuids, new, web, localModeServer,
                   socket, tasks, cleanUpSessionsTask, telemetryJob, storeState,
                   cleanUps>>

\* Mutant of ShutdownWebServer: the error of webServer.Shutdown is dropped.
ShutdownWebServerErrDropped ==
    /\ At("sd_web")
    /\ \E ok \in BOOLEAN :
        IF ok THEN /\ web' = [running |-> FALSE]
                   /\ caller' = [Did(caller, "webShutdown") EXCEPT !.pc = "sd_local"]
        ELSE /\ caller' = [Erred(caller, "webShutdown") EXCEPT !.pc = "sd_local"]
             /\ UNCHANGED web
    /\ UNCHANGED <<cfg, mattermostAuth, table, lastSet, uuids, new, localModeServer,
                   socket, tasks, cleanUpSessionsTask, telemetryJob, storeState,
                   cleanUps>>

\* if err := s.webServer.Shutdown(); err != nil { return err }
ShutdownWebServer ==
    /\ At("sd_web")
    /\ \E ok \in BOOLEAN :
        IF ok THEN /\ web' = [running |-> FALSE]
                   /\ caller' = [Did(caller, "webShutdown") EXCEPT !.pc = "sd_local"]
        ELSE /\ caller' = Erred(Return("Shutdown", "web shutdown failed"),
                                "webShutdown")
             /\ UNCHANGED web
    /\ UNCHANGED <<cfg, mattermostAuth, table, lastSet, uuids, new, localModeServer,
                   socket, tasks, cleanUpSessionsTask, telemetryJob, storeState,
                   cleanUps>>

\* Mutant of StopLocalModeServer: an error of Close() ends Shutdown.
StopLocalModeServerErrReturned ==
    /\ At("sd_local")
    /\ IF localModeServer.set
       THEN /\ localModeServer' = NoLocalServer
            /\ socket' = IF socket.serving
                         THEN [NoSocket EXCEPT !.orphan = socket.orphan]
                         ELSE socket
            /\ \E ok \in BOOLEAN :
                caller' = IF ok THEN [Did(caller, "localClose") EXCEPT !.pc = "sd_cancel"]
                          ELSE Erred(Return("Shutdown", "close failed"), "localClose")
       ELSE /\ UNCHANGED <<localModeServer, socket>>
            /\ Goto("sd_cancel")
    /\ UNCHANGED <<cfg, mattermostAuth, table, lastSet, uuids, new, web, tasks,
                   cleanUpSessionsTask, telemetryJob, storeState, cleanUps>>

\* stopLocalModeServer: Close() of a non-nil server closes the listener it
\* serves on, which removes the socket file, and its error is discarded; then
\* s.localModeServer = nil
StopLocalModeServer ==
    /\ At("sd_local")
    /\ IF localModeServer.set
       THEN /\ localModeServer' = NoLocalServer
            /\ socket' = IF socket.serving
                         THEN [NoSocket EXCEPT !.orphan = socket.orphan]
                         ELSE socket
            /\ \E ok \in BOOLEAN :
                caller' = [(IF ok THEN Did(caller, "localClose")
                            ELSE Erred(caller, "localClose"))
                           EXCEPT !.pc = "sd_cancel"]
       ELSE /\ UNCHANGED <<localModeServer, socket>>
            /\ Goto("sd_cancel")
    /\ UNCHANGED <<cfg, mattermostAuth, table, lastSet, uuids, new, web, tasks,
                   cleanUpSessionsTask, telemetryJob, storeState, cleanUps>>

\* Mutant of ShutdownCancelTask: the task is left running.
ShutdownCancelTaskSkipped ==
    /\ At("sd_cancel")
    /\ Goto("sd_telemetry")
    /\ UNCHANGED <<cfg, mattermostAuth, table, lastSet, uuids, new, web, localModeServer,
                   socket, tasks, cleanUpSessionsTask, telemetryJob, storeState,
                   cleanUps>>

\* Mutant of ShutdownCancelTask: Cancel is called on a nil task, which panics.
ShutdownCancelTaskNoNilCheck ==
    /\ At("sd_cancel")
    /\ IF cleanUpSessionsTask # 0
       THEN /\ tasks' = Cancel(tasks, cleanUpSessionsTask)
            /\ caller' = [Did(caller, "cancelTask") EXCEPT !.pc = "sd_telemetry"]
       ELSE /\ tasks' = tasks
            /\ caller' = Erred(Return("Shutdown", "panic"), "cancelTask")
    /\ UNCHANGED <<cfg, mattermostAuth, table, lastSet, uuids, new, web, localModeServer,
                   socket, cleanUpSessionsTask, telemetryJob, storeState, cleanUps>>

\* if s.cleanUpSessionsTask != nil { s.cleanUpSessionsTask.Cancel() }
ShutdownCancelTask ==
    /\ At("sd_cancel")
    /\ tasks' = IF cleanUpSessionsTask # 0 THEN Cancel(tasks, cleanUpSessionsTask)
                ELSE tasks
    /\ caller' = [(IF cleanUpSessionsTask # 0 THEN Did(caller, "cancelTask")
                   ELSE caller)
                  EXCEPT !.pc = "sd_telemetry"]
    /\ UNCHANGED <<cfg, mattermostAuth, table, lastSet, uuids, new, web, localModeServer,
                   socket, cleanUpSessionsTask, telemetryJob, storeState, cleanUps>>

\* s.telemetry.Shutdown()
ShutdownTelemetry ==
    /\ At("sd_telemetry")
    /\ telemetryJob' = "stopped"
    /\ caller' = [Did(caller, "telemetryShutdown") EXCEPT !.pc = "sd_store"]
    /\ UNCHANGED <<cfg, mattermostAuth, table, lastSet, uuids, new, web, localModeServer,
                   socket, tasks, cleanUpSessionsTask, storeState, cleanUps>>

\* return s.store.Shutdown()
ShutdownStore ==
    /\ At("sd_store")
    /\ storeState' = IF storeState = "open" THEN "closed" ELSE "closedTwice"
    /\ \E ok \in BOOLEAN :
        caller' = IF ok THEN Did(Return("Shutdown", Nil), "storeShutdown")
                  ELSE Erred(Return("Shutdown", "store shutdown failed"),
                             "storeShutdown")
    /\ UNCHANGED <<cfg, mattermostAuth, table, lastSet, uuids, new, web, localModeServer,
                   socket, tasks, cleanUpSessionsTask, telemetryJob, cleanUps>>

StartStep ==
    \/ CallStart
    \/ StartWebServer
    \/ LocalUnlink
    \/ LocalListen
    \/ LocalChmod
    \/ LocalServe
    \/ StartCleanUpTask
    \/ StartTelemetry

ShutdownStep ==
    \/ CallShutdown
    \/ ShutdownWebServer
    \/ StopLocalModeServer
    \/ ShutdownCancelTask
    \/ ShutdownTelemetry
    \/ ShutdownStore

\* ------------------------------------------------------------------------
\* Specifications
\* ------------------------------------------------------------------------
DefaultConfig ==
    [AuthMode |-> "native", EnableLocalMode |-> FALSE, Telemetry |-> FALSE,
     SessionExpireTime |-> 0]

\* Tables a construction can find: a fresh database, or one whose
\* TelemetryID row holds the empty string.
InitialTables == {<<>>, <<[id |-> "TelemetryID", value |-> ""]>>}

\* The settings store alone, used by arbitrary callers.
InitStore ==
    /\ cfg = DefaultConfig
    /\ mattermostAuth = FALSE
    /\ table = <<>>
    /\ lastSet = NoCall
    /\ uuids = 0
    /\ new = [p \in Procs |-> NewEntry(<<>>)]
    /\ LifeInit

NextStore == StoreSet

SpecStore == InitStore /\ [][NextStore]_vars

\* Constructions, racing and restarting, against one database.
Init ==
    /\ cfg \in {[DefaultConfig EXCEPT !.AuthMode = m] : m \in {"native", "mattermost"}}
    /\ mattermostAuth \in BOOLEAN
    /\ table \in InitialTables
    /\ lastSet = NoCall
    /\ uuids = 0
    /\ new = [p \in Procs |-> NewEntry(table)]
    /\ LifeInit

Next ==
    \/ \E p \in Procs : NewStep(p)
    \/ \E p \in Procs : Restart(p)

Spec == Init /\ [][Next]_vars

\* Session expiry times of the configuration, in seconds.
ExpireTimes == {0, 60 * 60 * 24 * 31, 60 * 60 * 24 * 40}

\* One process constructs a Server, which is then started and shut down in
\* any order while the timers of its tasks fire. The external authenticator
\* is supplied, so that AuthMode alone selects between the two wirings of
\* initHandlers.
InitServer ==
    /\ cfg \in [AuthMode : {"native", "mattermost"}, EnableLocalMode : BOOLEAN,
                Telemetry : BOOLEAN, SessionExpireTime : ExpireTimes]
    /\ mattermostAuth = TRUE
    /\ table = <<>>
    /\ lastSet = NoCall
    /\ uuids = 0
    /\ new = [p \in Procs |-> NewEntry(table)]
    /\ LifeInit

NextServer ==
    \/ NewStep(Main)
    \/ StartStep
    \/ ShutdownStep
    \/ \E i \in 1..MaxTasks : TickFire(i)
    \/ \E i \in 1..MaxTasks : TickCleanUp(i)

SpecServer == InitServer /\ [][NextServer]_vars

\* ------------------------------------------------------------------------
\* Properties of the settings store and of New
\* ------------------------------------------------------------------------
TelemetryKey == "TelemetryID"

ReadBack == GetSystemSettings(table, TRUE).results

\* C1: every SetSystemSetting(k, v) whose statement reaches the database
\* succeeds, also when k was set before, and GetSystemSettings() then holds
\* one entry for k, with the value v of the last call.
C1_LastWriteWins ==
    (lastSet.called /\ lastSet.io) =>
        /\ lastSet.err = Nil
        /\ lastSet.id \in DOMAIN ReadBack
        /\ MapGet(ReadBack, lastSet.id) = lastSet.value
        /\ RowCount(table, lastSet.id) = 1

\* C2: once the store holds a non-empty TelemetryID its value never changes,
\* and a construction that began when the store already held one never calls
\* SetSystemSetting for the TelemetryID key.
C2_TelemetryIDStable ==
    [][ /\ (Len(StoredValue(table, TelemetryKey)) > 0 =>
               StoredValue(table', TelemetryKey) = StoredValue(table, TelemetryKey))
        /\ \A p \in Procs :
               new'[p].sawStoredID => "setTelemetryID" \notin new'[p].executed
      ]_vars

\* A construction that began against a populated store has completed.
C2_Witness ==
    \E p \in Procs :
        /\ Succeeded(p)
        /\ new[p].sawStoredID
        /\ Len(StoredValue(table, TelemetryKey)) > 0

\* C3: after a successful New that began with the TelemetryID absent or
\* empty, GetSystemSettings()["TelemetryID"] is non-empty.
C3_FirstRunStoresID ==
    \A p \in Procs :
        (Succeeded(p) /\ ~new[p].sawStoredID) =>
            Len(MapGet(ReadBack, TelemetryKey)) > 0

\* A first run that wrote the identifier itself has completed.
C3_Witness ==
    \E p \in Procs :
        /\ Succeeded(p)
        /\ ~new[p].sawStoredID
        /\ "setTelemetryID" \in new[p].executed

\* C4: after a successful first run the identifier the telemetry reporter
\* was constructed with is the value stored under the TelemetryID key.
C4_ReporterIDIsStoredID ==
    \A p \in Procs :
        (Succeeded(p) /\ "setTelemetryID" \in new[p].executed) =>
            new[p].server.telemetryID = StoredValue(table, TelemetryKey)

\* C9: when GetRootWorkspace fails, New returns an error and no Server, and
\* executes none of the later construction steps.
C9_RootWorkspaceErrorAborts ==
    \A p \in Procs :
        "rootWorkspace" \in new[p].failed =>
            /\ new[p].executed \cap StepsAfter("rootWorkspace") = {}
            /\ Returned(p)
            /\ ~new[p].server.valid
            /\ new[p].err # Nil

\* The failures C10 names.
FatalSteps == {"sqlstore", "files", "setTelemetryID"} \cup CountSteps

\* C10: when opening the store, the file backend, the TelemetryID write or a
\* usage count fails, New has returned no Server and a non-nil error and has
\* executed no step after the failing one; a Server is returned only with a
\* nil error.
C10_AllOrNothing ==
    \A p \in Procs :
        /\ \A s \in new[p].failed \cap FatalSteps :
            /\ new[p].executed \subseteq StepsUpTo(s)
            /\ Returned(p)
            /\ ~new[p].server.valid
            /\ new[p].err # Nil
        /\ new[p].server.valid => (Returned(p) /\ new[p].err = Nil)

\* A construction has failed at its last usage count, after all other steps.
C10_Witness ==
    \E p \in Procs :
        /\ Returned(p)
        /\ "monthlyActive" \in new[p].failed
        /\ "setTelemetryID" \in new[p].executed

\* ------------------------------------------------------------------------
\* Properties of Start, Shutdown and the session-cleanup task
\* ------------------------------------------------------------------------
\* C5: whenever Shutdown invokes the store's Shutdown, the task held in
\* s.cleanUpSessionsTask (if any) has been cancelled and the telemetry job
\* has been stopped.
C5_StoreClosedLast ==
    [][ storeState' # storeState =>
            /\ cleanUpSessionsTask # 0 => tasks[cleanUpSessionsTask].cancelled
            /\ telemetryJob = "stopped"
      ]_vars

\* A Shutdown has closed the store of a started Server whose task and
\* telemetry job had been running.
C5_Witness ==
    /\ storeState = "closed"
    /\ caller.lastOp = "Shutdown"
    /\ cleanUpSessionsTask # 0
    /\ tasks[cleanUpSessionsTask].cancelled
    /\ cfg.Telemetry
    /\ telemetryJob = "stopped"

\* C6: no tick of a session-cleanup task calls CleanUpSessions after
\* Shutdown has closed the store.
C6_NoCleanUpAfterClose == ~cleanUps.afterClose

Max(a, b) == IF a >= b THEN a ELSE b

\* C7: every tick calls CleanUpSessions with max(2678400, SessionExpireTime)
\* seconds, never less than the configured session expiry.
C7_RetentionFloor ==
    cleanUps.called =>
        /\ cleanUps.secondsAgo = Max(2678400, cfg.SessionExpireTime)
        /\ cleanUps.secondsAgo >= cfg.SessionExpireTime

\* A tick has run with a session expiry of 40 days configured.
C7_Witness ==
    /\ cleanUps.called
    /\ cfg.SessionExpireTime = 60 * 60 * 24 * 40
    /\ cleanUps.secondsAgo = 3456000

\* Routes each transport answers: the public one while its listener runs,
\* the local one while it serves on the socket.
PublicServes == IF web.running THEN S.webRoutes ELSE {}

LocalServes == IF socket.serving THEN localModeServer.handler ELSE {}

PublicRoutes == APIRoutes \cup WSRoutes \cup MattermostAuthRoutes

\* C8: once New has returned the Server, the administrative routes are
\* answered by the local-mode server only and the REST, WebSocket and
\* Mattermost-auth routes by the public web server only.
C8_TransportIsolation ==
    Succeeded(Main) =>
        /\ AdminRoutes \cap PublicServes = {}
        /\ PublicRoutes \cap LocalServes = {}
        /\ socket.serving => AdminRoutes \subseteq LocalServes
        /\ web.running => (APIRoutes \cup WSRoutes) \subseteq PublicServes
        /\ AdminRoutes \cap S.webRoutes = {}
        /\ PublicRoutes \cap S.localRouter = {}

\* Both transports are up, the Mattermost auth routes wired.
C8_Witness ==
    /\ Succeeded(Main)
    /\ web.running
    /\ socket.serving
    /\ MattermostAuthRoutes \subseteq PublicServes
    /\ caller.lastOp = "Start"

\* ------------------------------------------------------------------------
\* Properties of the calls of Start and Shutdown
\* ------------------------------------------------------------------------
\* The last call has returned, and it was a Start or a Shutdown.
StartReturned == caller.pc = "idle" /\ caller.lastOp = "Start"

ShutdownReturned == caller.pc = "idle" /\ caller.lastOp = "Shutdown"

\* The steps of startLocalModeServer whose error Start returns.
LocalModeErrs == {"listen", "chmod"}

\* C11: when webServer.Shutdown reports an error, Shutdown returns that
\* error and has done nothing else: the local-mode server, the socket, the
\* tasks, the telemetry job and the store are as they were.
C11_WebShutdownErrorAborts ==
    [][ "webShutdown" \in caller'.errs =>
            /\ caller'.pc = "idle"
            /\ caller'.lastOp = "Shutdown"
            /\ caller'.lastErr = "web shutdown failed"
            /\ caller'.steps = {"webShutdown"}
            /\ caller.pc = "sd_web" =>
                   UNCHANGED <<localModeServer, socket, tasks,
                               cleanUpSessionsTask, telemetryJob, storeState>>
      ]_vars

\* Shutdown of a started Server has returned the web server's error: the
\* local-mode server is still set, the task runs and the store is open.
C11_Witness ==
    /\ ShutdownReturned
    /\ "webShutdown" \in caller.errs
    /\ caller.lastErr = "web shutdown failed"
    /\ localModeServer.set
    /\ socket.serving
    /\ cleanUpSessionsTask # 0
    /\ ~tasks[cleanUpSessionsTask].cancelled
    /\ telemetryJob = "running"
    /\ storeState = "open"

\* What s.store.Shutdown() returned to the call.
StoreShutdownResult ==
    IF "storeShutdown" \in caller.errs THEN "store shutdown failed" ELSE Nil

\* C12: once webServer.Shutdown has succeeded, every later step of Shutdown
\* can be taken, and a Shutdown that returns has closed the store and
\* returns the result of store.Shutdown, whatever Close() of the local-mode
\* server reported.
C12_ShutdownReturnsStoreResult ==
    /\ caller.pc \in {"sd_local", "sd_cancel", "sd_telemetry", "sd_store"} =>
           ENABLED ShutdownStep
    /\ (ShutdownReturned /\ "webShutdown" \notin caller.errs) =>
           /\ "storeShutdown" \in caller.steps
           /\ storeState # "open"
           /\ caller.lastErr = StoreShutdownResult

\* Close() of the local-mode server failed, and Shutdown went on to the store
\* and returned the store's error.
C12_Witness ==
    /\ ShutdownReturned
    /\ "localClose" \in caller.errs
    /\ "storeShutdown" \in caller.errs
    /\ caller.lastErr = "store shutdown failed"
    /\ storeState = "closed"

\* C13: when net.Listen or os.Chmod of startLocalModeServer fails, Start
\* returns that error, and the call neither creates the session-cleanup task
\* nor runs the telemetry job.
C13_LocalModeErrorAborts ==
    [][ caller'.errs \cap LocalModeErrs # {} =>
            /\ cfg.EnableLocalMode
            /\ caller'.pc = "idle"
            /\ caller'.lastOp = "Start"
            /\ caller'.lastErr = (IF "listen" \in caller'.errs THEN "listen failed"
                                  ELSE "chmod failed")
            /\ caller'.steps \cap {"createTask", "runTelemetry"} = {}
            /\ caller.pc \in {"lm_listen", "lm_chmod"} =>
                   UNCHANGED <<tasks, cleanUpSessionsTask, telemetryJob>>
      ]_vars

\* Start has returned the error of os.Chmod with telemetry configured: there
\* is no task and the telemetry job has not run.
C13_Witness ==
    /\ StartReturned
    /\ "chmod" \in caller.errs
    /\ caller.lastErr = "chmod failed"
    /\ cfg.Telemetry
    /\ tasks = <<>>
    /\ telemetryJob = "new"

\* C14: a Start whose web server could not bind its port returns an error
\* and has done nothing after webServer.Start().
C14_WebBindErrorAborts ==
    (StartReturned /\ "webStart" \in caller.errs) =>
        /\ caller.lastErr # Nil
        /\ caller.steps = {"webStart"}

\* C15: Start and Shutdown are idempotent: there is never a second task, the
\* store is closed at most once, nothing runs once the store is closed, and
\* after a Shutdown that returned nil every task is cancelled.
C15_LifecycleIdempotent ==
    /\ Len(tasks) <= 1
    /\ storeState # "closedTwice"
    /\ storeState # "open" =>
           /\ ~web.running
           /\ ~socket.serving
           /\ telemetryJob # "running"
    /\ (ShutdownReturned /\ caller.lastErr = Nil) =>
           \A i \in 1..Len(tasks) : tasks[i].cancelled

\* C16: when two calls of New have both read an empty settings table and both
\* have written a TelemetryID, both writes succeeded and the stored value is
\* the one written last.
C16_RacingFirstRuns ==
    \A p, q \in Procs :
        ( /\ p # q
          /\ "setTelemetryID" \in new[p].executed
          /\ "setTelemetryID" \in new[q].executed
          /\ new[p].settings = EmptyMap
          /\ new[q].settings = EmptyMap
          /\ new[p].err # "exec failed"
          /\ new[q].err # "exec failed" ) =>
            /\ "setTelemetryID" \notin new[p].failed
            /\ "setTelemetryID" \notin new[q].failed
            /\ ReadBack[TelemetryKey] = lastSet.value

\* C17: the local-mode server is served only on a bound socket whose file is
\* owner-only, and within a call Unlink comes before Listen, Listen before
\* Chmod, and Serve only after both have succeeded.
C17_LocalModeActivationOrder ==
    /\ socket.serving => (socket.bound /\ socket.file = "0600")
    /\ "serve" \in caller.steps =>
           /\ {"unlink", "listen", "chmod"} \subseteq caller.steps
           /\ caller.errs \cap LocalModeErrs = {}
    /\ "chmod" \in caller.steps =>
           ("listen" \in caller.steps /\ "listen" \notin caller.errs)
    /\ "listen" \in caller.steps => "unlink" \in caller.steps

\* Start has served the local-mode server after Unlink, Listen and Chmod.
C17_Witness ==
    /\ StartReturned
    /\ {"unlink", "listen", "chmod", "serve"} \subseteq caller.steps
    /\ socket.serving
    /\ socket.file = "0600"

\* C18: the Server New returns has the external authenticator and the
\* integration routes on its public router exactly when AuthMode selects the
\* integration and the authenticator is supplied; otherwise the authenticator
\* and the routes are those built before initHandlers; New reports no
\* error in either case and the local router is untouched.
C18_InitHandlersWiring ==
    \A p \in Procs : Succeeded(p) =>
        LET s == new[p].server IN
        /\ new[p].err = Nil
        /\ "initHandlers" \notin new[p].failed
        /\ s.localRouter = new[p].localRouter
        /\ IF cfg.AuthMode = "mattermost" /\ mattermostAuth
           THEN /\ s.authenticator = "mattermost"
                /\ s.webRoutes = new[p].webRoutes \cup MattermostAuthRoutes
                /\ MattermostAuthRoutes \cap new[p].webRoutes = {}
           ELSE /\ s.authenticator = "default"
                /\ s.webRoutes = new[p].webRoutes

\* New has returned a Server with AuthMode "mattermost" and no external
\* authenticator supplied.
C18_Witness ==
    /\ Succeeded(Main)
    /\ cfg.AuthMode = "mattermost"
    /\ ~mattermostAuth
    /\ new[Main].server.authenticator = "default"

\* C19: in Shutdown, stopLocalModeServer with no local-mode server and the
\* cancellation with no task change nothing and report nothing,
\* telemetry.Shutdown is called whether or not the job ran, and the last step
\* closes the store and returns the result of store.Shutdown.
C19_ShutdownOfIdleServerSafe ==
    [][ caller' # caller =>
            /\ (caller.pc = "sd_local" /\ ~localModeServer.set) =>
                   /\ UNCHANGED <<localModeServer, socket>>
                   /\ caller'.pc = "sd_cancel"
                   /\ caller'.errs = caller.errs
            /\ (caller.pc = "sd_cancel" /\ cleanUpSessionsTask = 0) =>
                   /\ UNCHANGED tasks
                   /\ caller'.pc = "sd_telemetry"
                   /\ caller'.errs = caller.errs
            /\ caller.pc = "sd_telemetry" =>
                   /\ telemetryJob' = "stopped"
                   /\ caller'.pc = "sd_store"
            /\ caller.pc = "sd_store" =>
                   /\ storeState' # "open"
                   /\ caller'.pc = "idle"
                   /\ caller'.lastOp = "Shutdown"
                   /\ caller'.lastErr =
                          (IF "storeShutdown" \in caller'.errs
                           THEN "store shutdown failed" ELSE Nil)
      ]_vars

\* Shutdown of a Server that was never started has returned nil: no task was
\* ever created, no socket bound, the telemetry job never ran, and the store
\* is closed.
C19_Witness ==
    /\ ShutdownReturned
    /\ caller.lastErr = Nil
    /\ caller.steps = {"webShutdown", "telemetryShutdown", "storeShutdown"}
    /\ tasks = <<>>
    /\ socket = NoSocket
    /\ telemetryJob = "stopped"
    /\ storeState = "closed"

\* C20: after a Start that returned an error of startLocalModeServer no
\* listener is bound to the socket, s.localModeServer is nil and the web
\* server is not running.
C20_FailedLocalStartLeavesNothing ==
    (StartReturned /\ caller.errs \cap LocalModeErrs # {}) =>
        /\ ~socket.bound
        /\ ~localModeServer.set
        /\ ~web.running

====
